---- MODULE Spec2Model ----
(***************************************************************************)
(* Model of prog/sensors/main.c of lm-sensors: command-line chip patterns, *)
(* the dispatch loop over the detected chips, the print and set actions,   *)
(* the chip-name formatter and the exit status of the process.             *)
(*                                                                         *)
(* Strings are sequences of one-character strings, so that formatting and  *)
(* parsing are computed character by character.                            *)
(***************************************************************************)
EXTENDS Integers, Sequences, FiniteSets, TLC

VARIABLES pc, argv, argi, chips, chips_count,
          do_sets, do_unknown, hide_adapter, hide_unknown,
          detected, chip_nr, chip, i, cnt, error,
          buf, out, errout, log, exit_status

vars == <<pc, argv, argi, chips, chips_count,
          do_sets, do_unknown, hide_adapter, hide_unknown,
          detected, chip_nr, chip, i, cnt, error,
          buf, out, errout, log, exit_status>>

----------------------------------------------------------------------------
(* Program constants *)

CHIPS_MAX == 20

BUF_SIZE == 200

(* lib/sensors.h: wildcard and bus-kind sentinels of sensors_chip_name.    *)
(* A NULL prefix is the empty sequence; no chip has an empty prefix.       *)
SENSORS_CHIP_NAME_PREFIX_ANY == << >>

SENSORS_CHIP_NAME_BUS_ISA == -1

SENSORS_CHIP_NAME_BUS_ANY == -2

SENSORS_CHIP_NAME_BUS_ANY_I2C == -3

SENSORS_CHIP_NAME_BUS_DUMMY == -4

SENSORS_CHIP_NAME_BUS_PCI == -5

SENSORS_CHIP_NAME_ADDR_ANY == -1

(* Status classes of sensors_do_chip_sets: zero, -SENSORS_ERR_PROC,        *)
(* -SENSORS_ERR_ACCESS_W and any other non-zero code.                      *)
SetStatus == {"OK", "ERR_PROC", "ERR_ACCESS_W", "ERR_OTHER"}

----------------------------------------------------------------------------
(* Bounds of the model *)

MaxArgs == 2

MaxChips == 2

----------------------------------------------------------------------------
(* Characters and number conversion as done by snprintf *)

HexDigits == <<"0","1","2","3","4","5","6","7","8","9","a","b","c","d","e","f">>

Min(a, b) == IF a < b THEN a ELSE b

RECURSIVE Digits(_, _)
(* the digits of the non-negative n in the given base, most significant first *)
Digits(n, base) ==
  IF n < base THEN <<HexDigits[n + 1]>>
  ELSE Digits(n \div base, base) \o <<HexDigits[(n % base) + 1]>>

RECURSIVE ZeroPad(_, _)
ZeroPad(s, w) == IF Len(s) >= w THEN s ELSE ZeroPad(<<"0">> \o s, w)

(* the hexadecimal digits of the int n converted to unsigned (32 bit); a  *)
(* negative n is 2^32 + n, written as its high and low 16-bit halves      *)
UnsignedHex(n) ==
  IF n >= 0 THEN Digits(n, 16)
  ELSE Digits(65535 - ((0 - n - 1) \div 65536), 16)
       \o ZeroPad(Digits(65535 - ((0 - n - 1) % 65536), 16), 4)

(* %0<w>x : minimum width w, padded with zeros *)
FmtHex(n, w) == ZeroPad(UnsignedHex(n), w)

(* %d *)
FmtDec(n) == IF n < 0 THEN <<"-">> \o Digits(0 - n, 10) ELSE Digits(n, 10)

(* snprintf(buf, BUF_SIZE, ...) keeps at most BUF_SIZE - 1 characters *)
Truncate(s) == SubSeq(s, 1, Min(Len(s), BUF_SIZE - 1))


----------------------------------------------------------------------------
(* Strings used by the model *)

Star == <<"*">>

S_isa == <<"i","s","a">>

S_pci == <<"p","c","i">>

S_i2c == <<"i","2","c">>

S_lm78 == <<"l","m","7","8">>

S_lm75 == <<"l","m","7","5">>

S_w83781d == <<"w","8","3","7","8","1","d">>

S_dummy == <<"d","u","m","m","y">>

S_spi == <<"s","p","i">>

----------------------------------------------------------------------------
(* sensors_chip_name values *)

Chip(p, b, bn, a) == [prefix |-> p, bus |-> b, busname |-> bn, addr |-> a]

NoChip == Chip(<< >>, 0, << >>, 0)

(* main.c 211-213: the spec stored when no chip argument is given *)
DefaultSpec_wrong ==
  Chip(S_lm78, SENSORS_CHIP_NAME_BUS_ANY, << >>, SENSORS_CHIP_NAME_ADDR_ANY)

DefaultSpec ==
  Chip(SENSORS_CHIP_NAME_PREFIX_ANY, SENSORS_CHIP_NAME_BUS_ANY, << >>,
       SENSORS_CHIP_NAME_ADDR_ANY)

----------------------------------------------------------------------------
(* sprintf_chip_name, main.c 296-312 *)

(* variant: the ISA address printed with %04d instead of %04x *)
sprintf_chip_name_dec(name) ==
  IF name.bus = SENSORS_CHIP_NAME_BUS_ISA
    THEN Truncate(name.prefix \o <<"-">> \o S_isa \o <<"-">>
                  \o ZeroPad(FmtDec(name.addr), 4))
  ELSE IF name.bus = SENSORS_CHIP_NAME_BUS_PCI
    THEN Truncate(name.prefix \o <<"-">> \o S_pci \o <<"-">> \o FmtHex(name.addr, 4))
  ELSE IF name.bus = SENSORS_CHIP_NAME_BUS_DUMMY
    THEN Truncate(name.prefix \o <<"-">> \o name.busname \o <<"-">>
                  \o FmtHex(name.addr, 4))
  ELSE Truncate(name.prefix \o <<"-">> \o S_i2c \o <<"-">> \o FmtDec(name.bus)
                \o <<"-">> \o FmtHex(name.addr, 2))

(* variant: the I2C address printed with %04x instead of %02x *)
sprintf_chip_name_wide(name) ==
  IF name.bus = SENSORS_CHIP_NAME_BUS_ISA
    THEN Truncate(name.prefix \o <<"-">> \o S_isa \o <<"-">> \o FmtHex(name.addr, 4))
  ELSE IF name.bus = SENSORS_CHIP_NAME_BUS_PCI
    THEN Truncate(name.prefix \o <<"-">> \o S_pci \o <<"-">> \o FmtHex(name.addr, 4))
  ELSE IF name.bus = SENSORS_CHIP_NAME_BUS_DUMMY
    THEN Truncate(name.prefix \o <<"-">> \o name.busname \o <<"-">>
                  \o FmtHex(name.addr, 4))
  ELSE Truncate(name.prefix \o <<"-">> \o S_i2c \o <<"-">> \o FmtDec(name.bus)
                \o <<"-">> \o FmtHex(name.addr, 4))

sprintf_chip_name(name) ==
  IF name.bus = SENSORS_CHIP_NAME_BUS_ISA
    THEN Truncate(name.prefix \o <<"-">> \o S_isa \o <<"-">> \o FmtHex(name.addr, 4))
  ELSE IF name.bus = SENSORS_CHIP_NAME_BUS_PCI
    THEN Truncate(name.prefix \o <<"-">> \o S_pci \o <<"-">> \o FmtHex(name.addr, 4))
  ELSE IF name.bus = SENSORS_CHIP_NAME_BUS_DUMMY
    THEN Truncate(name.prefix \o <<"-">> \o name.busname \o <<"-">>
                  \o FmtHex(name.addr, 4))
  ELSE Truncate(name.prefix \o <<"-">> \o S_i2c \o <<"-">> \o FmtDec(name.bus)
                \o <<"-">> \o FmtHex(name.addr, 2))

----------------------------------------------------------------------------
(* The library's pattern parser and matcher (lib/): a pattern is a list of *)
(* fields separated by dashes, each field a literal or the wildcard star.  *)

RECURSIVE SplitDash(_)
SplitDash(s) ==
  IF \A k \in 1..Len(s) : s[k] # "-" THEN <<s>>
  ELSE LET k == CHOOSE j \in 1..Len(s) :
                  s[j] = "-" /\ \A m \in 1..(j - 1) : s[m] # "-"
       IN  <<SubSeq(s, 1, k - 1)>> \o SplitDash(SubSeq(s, k + 1, Len(s)))

DigitValue(c) == CHOOSE k \in 0..15 : HexDigits[k + 1] = c

IsNumber(s, base) ==
  /\ Len(s) > 0
  /\ \A k \in 1..Len(s) : \E d \in 0..(base - 1) : HexDigits[d + 1] = s[k]

RECURSIVE NumberValue(_, _)
NumberValue(s, base) ==
  IF Len(s) = 0 THEN 0
  ELSE NumberValue(SubSeq(s, 1, Len(s) - 1), base) * base + DigitValue(s[Len(s)])

sensors_parse_chip_name(name) ==
  LET parts == SplitDash(name)
      n     == Len(parts)
      Fail  == [err |-> 1, spec |-> NoChip]
      Ok(p, b, bn, a) ==
        IF p = << >> THEN Fail
        ELSE [err |-> 0,
              spec |-> Chip(IF p = Star THEN SENSORS_CHIP_NAME_PREFIX_ANY ELSE p,
                            b, bn, a)]
      last  == parts[n]
      addr  == IF last = Star THEN SENSORS_CHIP_NAME_ADDR_ANY
               ELSE NumberValue(last, 16)
  IN  IF n = 1
        THEN IF name = Star
               THEN Ok(Star, SENSORS_CHIP_NAME_BUS_ANY, << >>,
                       SENSORS_CHIP_NAME_ADDR_ANY)
               ELSE Fail
      ELSE IF ~(last = Star \/ IsNumber(last, 16)) THEN Fail
      ELSE IF n = 2
        THEN IF last = Star
               THEN Ok(parts[1], SENSORS_CHIP_NAME_BUS_ANY, << >>, addr)
               ELSE Fail
      ELSE IF n = 3
        THEN IF parts[2] = S_isa
               THEN Ok(parts[1], SENSORS_CHIP_NAME_BUS_ISA, << >>, addr)
             ELSE IF parts[2] = S_pci
               THEN Ok(parts[1], SENSORS_CHIP_NAME_BUS_PCI, << >>, addr)
             ELSE IF parts[2] = Star
               THEN Ok(parts[1], SENSORS_CHIP_NAME_BUS_ANY, << >>, addr)
             ELSE IF parts[2] = S_i2c \/ parts[2] = << >>
               THEN Fail
             ELSE Ok(parts[1], SENSORS_CHIP_NAME_BUS_DUMMY, parts[2], addr)
      ELSE IF n = 4 /\ parts[2] = S_i2c
        THEN IF parts[3] = Star
               THEN Ok(parts[1], SENSORS_CHIP_NAME_BUS_ANY_I2C, << >>, addr)
             ELSE IF IsNumber(parts[3], 10)
               THEN Ok(parts[1], NumberValue(parts[3], 10), << >>, addr)
             ELSE Fail
      ELSE Fail

sensors_match_chip(d, s) ==
  /\ \/ s.prefix = SENSORS_CHIP_NAME_PREFIX_ANY
     \/ s.prefix = d.prefix
  /\ \/ s.bus = SENSORS_CHIP_NAME_BUS_ANY
     \/ s.bus = SENSORS_CHIP_NAME_BUS_ANY_I2C /\ d.bus >= 0
     \/ /\ s.bus = SENSORS_CHIP_NAME_BUS_DUMMY
        /\ d.bus = SENSORS_CHIP_NAME_BUS_DUMMY
        /\ s.busname = d.busname
     \/ /\ s.bus \notin {SENSORS_CHIP_NAME_BUS_ANY, SENSORS_CHIP_NAME_BUS_ANY_I2C,
                         SENSORS_CHIP_NAME_BUS_DUMMY}
        /\ s.bus = d.bus
  /\ \/ s.addr = SENSORS_CHIP_NAME_ADDR_ANY
     \/ s.addr = d.addr

----------------------------------------------------------------------------
(* Inputs of a run *)

(* chips the library may report as detected *)
D_lm78_isa == Chip(S_lm78, SENSORS_CHIP_NAME_BUS_ISA, << >>, 656)

D_lm75_i2c0 == Chip(S_lm75, 0, << >>, 72)

D_w83781d_i2c1 == Chip(S_w83781d, 1, << >>, 45)

DetectedUniverse == {D_lm78_isa, D_lm75_i2c0, D_w83781d_i2c1}

DetectedLists ==
  UNION { { s \in [1..n -> DetectedUniverse] :
              \A a, b \in 1..n : a # b => s[a] # s[b] } : n \in 0..MaxChips }

(* command-line chip arguments *)
P_lm78_any == S_lm78 \o <<"-">> \o Star

P_any_i2c == Star \o <<"-">> \o S_i2c \o <<"-">> \o Star \o <<"-">> \o Star

P_lm75_i2c_0_48 == S_lm75 \o <<"-">> \o S_i2c \o <<"-", "0", "-", "4", "8">>

P_malformed == S_lm78

Patterns == {P_lm78_any, P_any_i2c, P_lm75_i2c_0_48, P_malformed}

(* short argument lists of arbitrary patterns, and long lists of one       *)
(* pattern up to one more than the capacity of the chips array             *)
Argvs ==
  UNION { [1..n -> Patterns] : n \in 0..MaxArgs }
  \cup { [j \in 1..n |-> P_any_i2c] : n \in (MaxArgs + 1)..(CHIPS_MAX + 1) }

Line(tag, text) == [tag |-> tag, text |-> text]

----------------------------------------------------------------------------
(* do_a_set, main.c 275-294: res is the status class returned by           *)
(* sensors_do_chip_sets                                                    *)

do_a_set(name, res) ==
  IF res = "OK" THEN [ret |-> 0, err |-> << >>, buf |-> buf]
  ELSE IF res = "ERR_PROC"
    THEN [ret |-> 1,
          err |-> <<Line("set_for_writing", sprintf_chip_name(name)),
                    Line("run_as_root", << >>)>>,
          buf |-> sprintf_chip_name(name)]
  ELSE IF res = "ERR_ACCESS_W"
    THEN [ret |-> 0,
          err |-> <<Line("set_statement_failed", sprintf_chip_name(name))>>,
          buf |-> sprintf_chip_name(name)]
  ELSE [ret |-> 0,
        err |-> <<Line("set_strerror", sprintf_chip_name(name))>>,
        buf |-> sprintf_chip_name(name)]

(* do_a_print, main.c 314-332: adap tells whether sensors_get_adapter_name *)
(* finds a name                                                            *)

(* variant: without the early return on hide_unknown *)
do_a_print_always(name, adap) ==
  [out |-> <<Line("chip_name", sprintf_chip_name(name))>>
           \o (IF hide_adapter = 0 /\ adap THEN <<Line("adapter", << >>)>> ELSE << >>)
           \o <<Line(IF do_unknown # 0 THEN "unknown_chip" ELSE "generic_chip", << >>),
                Line("blank", << >>)>>,
   err |-> IF hide_adapter = 0 /\ ~adap
             THEN <<Line("no_adapter_name", << >>)>> ELSE << >>,
   buf |-> sprintf_chip_name(name)]

do_a_print(name, adap) ==
  IF hide_unknown # 0 THEN [out |-> << >>, err |-> << >>, buf |-> buf]
  ELSE
  [out |-> <<Line("chip_name", sprintf_chip_name(name))>>
           \o (IF hide_adapter = 0 /\ adap THEN <<Line("adapter", << >>)>> ELSE << >>)
           \o <<Line(IF do_unknown # 0 THEN "unknown_chip" ELSE "generic_chip", << >>),
                Line("blank", << >>)>>,
   err |-> IF hide_adapter = 0 /\ ~adap
             THEN <<Line("no_adapter_name", << >>)>> ELSE << >>,
   buf |-> sprintf_chip_name(name)]

----------------------------------------------------------------------------
(* State after option parsing (main.c 165-208) *)

Init ==
  /\ pc = "args"
  /\ argv \in Argvs
  /\ argi = 1
  /\ chips = << >>
  /\ chips_count = 0
  /\ do_sets \in {0, 1}
  /\ do_unknown \in {0, 1}
  /\ hide_adapter \in {0, 1}
  /\ hide_unknown \in {0, 1}
  /\ detected = << >>
  /\ chip_nr = 0
  /\ chip = NoChip
  /\ i = 0
  /\ cnt = 0
  /\ error \in {0, 1}          \* main's local, not initialised
  /\ buf = << >>
  /\ out = << >>
  /\ errout = << >>
  /\ log = << >>
  /\ exit_status = -1

(* main.c 210-215: no chip argument *)
main_default ==
  /\ pc = "args"
  /\ Len(argv) = 0
  /\ chips' = <<DefaultSpec>>
  /\ chips_count' = 1
  /\ pc' = "init"
  /\ UNCHANGED <<argv, argi, do_sets, do_unknown, hide_adapter, hide_unknown,
                 detected, chip_nr, chip, i, cnt, error, buf, out, errout, log,
                 exit_status>>

(* main.c 221: the test made after a pattern has been stored *)
TooMany(n) == n = CHIPS_MAX

(* main.c 216-224: one iteration of the loop over the chip arguments *)
main_parse_arg ==
  /\ pc = "args"
  /\ argi <= Len(argv)
  /\ LET r == sensors_parse_chip_name(argv[argi])
     IN  IF r.err # 0
           THEN /\ errout' = Append(errout, Line("parse_error", argv[argi]))
                /\ out' = Append(out, Line("short_help", << >>))
                /\ exit_status' = 1
                /\ pc' = "exit_fatal"
                /\ UNCHANGED <<chips, chips_count, argi>>
         ELSE /\ chips' = Append(chips, r.spec)
              /\ chips_count' = chips_count + 1
              /\ IF TooMany(chips_count + 1)
                   THEN /\ errout' = Append(errout, Line("too_many_chips", << >>))
                        /\ exit_status' = 1
                        /\ pc' = "exit_fatal"
                        /\ UNCHANGED <<argi, out>>
                   ELSE /\ argi' = argi + 1
                        /\ UNCHANGED <<pc, out, errout, exit_status>>
  /\ UNCHANGED <<argv, do_sets, do_unknown, hide_adapter, hide_unknown,
                 detected, chip_nr, chip, i, cnt, error, buf, log>>

(* main.c 216: the loop over the chip arguments ends *)
main_args_done ==
  /\ pc = "args"
  /\ Len(argv) > 0
  /\ argi > Len(argv)
  /\ pc' = "init"
  /\ UNCHANGED <<argv, argi, chips, chips_count, do_sets, do_unknown,
                 hide_adapter, hide_unknown, detected, chip_nr, chip, i, cnt,
                 error, buf, out, errout, log, exit_status>>

(* main.c 226-234: the configuration file is opened and the library        *)
(* initialised; either may fail, otherwise the detected chips are known    *)
main_init ==
  /\ pc = "init"
  /\ \/ /\ \E msg \in {"could_not_open_config", "sensors_init"} :
             errout' = Append(errout, Line(msg, << >>))
        /\ exit_status' = 1
        /\ pc' = "exit_fatal"
        /\ UNCHANGED detected
     \/ /\ detected' \in DetectedLists
        /\ pc' = "work"
        /\ UNCHANGED <<errout, exit_status>>
  /\ UNCHANGED <<argv, argi, chips, chips_count, do_sets, do_unknown,
                 hide_adapter, hide_unknown, chip_nr, chip, i, cnt, error, buf,
                 out, log>>

(* do_the_real_work, main.c 253-260: entry *)
work_enter ==
  /\ pc = "work"
  /\ cnt' = 0
  /\ error' = 0
  /\ chip_nr' = 0
  /\ pc' = "next_chip"
  /\ UNCHANGED <<argv, argi, chips, chips_count, do_sets, do_unknown,
                 hide_adapter, hide_unknown, detected, chip, i, buf, out,
                 errout, log, exit_status>>

(* main.c 260: sensors_get_detected_chips(&chip_nr) *)
work_get_chip ==
  /\ pc = "next_chip"
  /\ IF chip_nr < Len(detected)
       THEN /\ chip' = detected[chip_nr + 1]
            /\ chip_nr' = chip_nr + 1
            /\ i' = 0
            /\ pc' = "scan"
       ELSE /\ pc' = "return"
            /\ UNCHANGED <<chip, chip_nr, i>>
  /\ UNCHANGED <<argv, argi, chips, chips_count, do_sets, do_unknown,
                 hide_adapter, hide_unknown, detected, cnt, error, buf, out,
                 errout, log, exit_status>>

(* main.c 268 and the loop's i++: the index after a dispatch *)
IndexAfterDispatch_next == i + 1

IndexAfterDispatch == chips_count + 1

(* main.c 261-262: chips[i] does not match the chip *)
work_scan_nomatch ==
  /\ pc = "scan"
  /\ i < chips_count
  /\ ~sensors_match_chip(chip, chips[i + 1])
  /\ i' = i + 1
  /\ UNCHANGED <<pc, argv, argi, chips, chips_count, do_sets, do_unknown,
                 hide_adapter, hide_unknown, detected, chip_nr, chip, cnt, error,
                 buf, out, errout, log, exit_status>>

(* variant: a failed set ends the iteration *)
work_scan_set_abort ==
  /\ pc = "scan"
  /\ i < chips_count
  /\ sensors_match_chip(chip, chips[i + 1])
  /\ do_sets # 0
  /\ \E res \in SetStatus :
       LET r == do_a_set(chip, res)
       IN  /\ error' = IF r.ret # 0 THEN 1 ELSE error
           /\ errout' = errout \o r.err
           /\ buf' = r.buf
           /\ log' = Append(log, [nr |-> chip_nr, spec |-> i, res |-> res])
           /\ pc' = IF r.ret # 0 THEN "return" ELSE pc
  /\ i' = IndexAfterDispatch
  /\ cnt' = cnt + 1
  /\ UNCHANGED <<argv, argi, chips, chips_count, do_sets, do_unknown,
                 hide_adapter, hide_unknown, detected, chip_nr, chip, out,
                 exit_status>>

(* main.c 262-269 with do_sets: chips[i] matches, the set action runs *)
work_scan_set ==
  /\ pc = "scan"
  /\ i < chips_count
  /\ sensors_match_chip(chip, chips[i + 1])
  /\ do_sets # 0
  /\ \E res \in SetStatus :
       LET r == do_a_set(chip, res)
       IN  /\ error' = IF r.ret # 0 THEN 1 ELSE error
           /\ errout' = errout \o r.err
           /\ buf' = r.buf
           /\ log' = Append(log, [nr |-> chip_nr, spec |-> i, res |-> res])
  /\ i' = IndexAfterDispatch
  /\ cnt' = cnt + 1
  /\ UNCHANGED <<pc, argv, argi, chips, chips_count, do_sets, do_unknown,
                 hide_adapter, hide_unknown, detected, chip_nr, chip, out,
                 exit_status>>

(* variant: a failed adapter lookup counts as a failure of the run *)
work_scan_print_strict ==
  /\ pc = "scan"
  /\ i < chips_count
  /\ sensors_match_chip(chip, chips[i + 1])
  /\ do_sets = 0
  /\ \E adap \in BOOLEAN :
       LET r == do_a_print(chip, adap)
       IN  /\ out' = out \o r.out
           /\ errout' = errout \o r.err
           /\ buf' = r.buf
           /\ error' = IF r.err # << >> THEN 1 ELSE error
           /\ log' = Append(log, [nr |-> chip_nr, spec |-> i, res |-> "PRINT"])
  /\ i' = IndexAfterDispatch
  /\ cnt' = cnt + 1
  /\ UNCHANGED <<pc, argv, argi, chips, chips_count, do_sets, do_unknown,
                 hide_adapter, hide_unknown, detected, chip_nr, chip,
                 exit_status>>

(* main.c 262-269 without do_sets: chips[i] matches, the print action runs *)
work_scan_print ==
  /\ pc = "scan"
  /\ i < chips_count
  /\ sensors_match_chip(chip, chips[i + 1])
  /\ do_sets = 0
  /\ \E adap \in BOOLEAN :
       LET r == do_a_print(chip, adap)
       IN  /\ out' = out \o r.out
           /\ errout' = errout \o r.err
           /\ buf' = r.buf
           /\ log' = Append(log, [nr |-> chip_nr, spec |-> i, res |-> "PRINT"])
  /\ i' = IndexAfterDispatch
  /\ cnt' = cnt + 1
  /\ UNCHANGED <<pc, argv, argi, chips, chips_count, do_sets, do_unknown,
                 hide_adapter, hide_unknown, detected, chip_nr, chip, error,
                 exit_status>>

(* main.c 261: the loop over the specs ends *)
work_scan_done ==
  /\ pc = "scan"
  /\ i >= chips_count
  /\ pc' = "next_chip"
  /\ UNCHANGED <<argv, argi, chips, chips_count, do_sets, do_unknown,
                 hide_adapter, hide_unknown, detected, chip_nr, chip, i, cnt,
                 error, buf, out, errout, log, exit_status>>

(* main.c 236-249: the status the process exits with *)
ExitStatus_lenient(c, e) == IF c # 0 THEN e ELSE 0

ExitStatus(c, e) == IF c # 0 THEN e ELSE 1

(* main.c 236-249: do_the_real_work has returned cnt *)
main_exit ==
  /\ pc = "return"
  /\ exit_status' = ExitStatus(cnt, error)
  /\ errout' = IF cnt # 0 THEN errout
               ELSE IF chips[1].prefix = SENSORS_CHIP_NAME_PREFIX_ANY
                 THEN Append(errout, Line("no_sensors_found", << >>))
               ELSE Append(errout, Line("specified_sensors_not_found", << >>))
  /\ pc' = "exit"
  /\ UNCHANGED <<argv, argi, chips, chips_count, do_sets, do_unknown,
                 hide_adapter, hide_unknown, detected, chip_nr, chip, i, cnt,
                 error, buf, out, log>>

Next ==
  \/ main_default
  \/ main_parse_arg
  \/ main_args_done
  \/ main_init
  \/ work_enter
  \/ work_get_chip
  \/ work_scan_nomatch
  \/ work_scan_set
  \/ work_scan_print
  \/ work_scan_done
  \/ main_exit

Spec == Init /\ [][Next]_vars

----------------------------------------------------------------------------
(* The formatter and the parser applied to one chip *)

FmtPrefixes == {S_lm78, S_lm75, S_w83781d}

FmtChips ==
  { Chip(p, SENSORS_CHIP_NAME_BUS_ISA, << >>, a) :
      p \in FmtPrefixes, a \in {0, 45, 656, 65535} }
  \cup { Chip(p, SENSORS_CHIP_NAME_BUS_PCI, << >>, a) :
      p \in FmtPrefixes, a \in {195, 65024} }
  \cup { Chip(p, SENSORS_CHIP_NAME_BUS_DUMMY, bn, a) :
      p \in FmtPrefixes, bn \in {S_dummy, S_spi}, a \in {0, 4660} }
  \cup { Chip(p, b, << >>, a) :
      p \in FmtPrefixes, b \in {0, 1, 10, 255}, a \in {0, 45, 72, 255} }

InitFmt ==
  /\ pc = "fmt"
  /\ chip \in FmtChips
  /\ argv = << >>
  /\ argi = 1
  /\ chips = << >>
  /\ chips_count = 0
  /\ do_sets = 0
  /\ do_unknown = 0
  /\ hide_adapter = 0
  /\ hide_unknown = 0
  /\ detected = << >>
  /\ chip_nr = 0
  /\ i = 0
  /\ cnt = 0
  /\ error = 0
  /\ buf = << >>
  /\ out = << >>
  /\ errout = << >>
  /\ log = << >>
  /\ exit_status = -1

(* sprintf_chip_name(chip) fills its static buffer *)
fmt_format ==
  /\ pc = "fmt"
  /\ buf' = sprintf_chip_name(chip)
  /\ pc' = "fmt_done"
  /\ UNCHANGED <<argv, argi, chips, chips_count, do_sets, do_unknown,
                 hide_adapter, hide_unknown, detected, chip_nr, chip, i, cnt,
                 error, out, errout, log, exit_status>>

(* main.c 217: the formatted name is given back as a chip argument *)
fmt_parse ==
  /\ pc = "fmt_done"
  /\ LET r == sensors_parse_chip_name(buf)
     IN  IF r.err # 0
           THEN /\ errout' = Append(errout, Line("parse_error", buf))
                /\ UNCHANGED <<chips, chips_count>>
           ELSE /\ chips' = Append(chips, r.spec)
                /\ chips_count' = chips_count + 1
                /\ UNCHANGED errout
  /\ pc' = "fmt_parsed"
  /\ UNCHANGED <<argv, argi, do_sets, do_unknown, hide_adapter, hide_unknown,
                 detected, chip_nr, chip, i, cnt, error, buf, out, log,
                 exit_status>>

NextFmt ==
  \/ fmt_format
  \/ fmt_parse

SpecFmt == InitFmt /\ [][NextFmt]_vars

----------------------------------------------------------------------------
(* Properties *)

InDispatch == pc \in {"next_chip", "scan", "return", "exit"}

Returned == pc \in {"return", "exit"}

Matches(k) == \E j \in 1..chips_count : sensors_match_chip(detected[k], chips[j])

FirstMatch(k) ==
  CHOOSE j \in 1..chips_count :
    /\ sensors_match_chip(detected[k], chips[j])
    /\ \A m \in 1..(j - 1) : ~sensors_match_chip(detected[k], chips[m])

Dispatches(k) == {n \in 1..Len(log) : log[n].nr = k}

Tags(seq) == {seq[n].tag : n \in 1..Len(seq)}

NotFoundTags == {"no_sensors_found", "specified_sensors_not_found"}

(* C1: in Set mode every non-zero status of the apply-writes capability    *)
(* (permission code, partial-failure code, any other code) makes the       *)
(* aggregate error flag true, and it stays true for the rest of the run.   *)
C1_EveryFailureSetsFlag ==
  (InDispatch /\ do_sets # 0 /\ \E n \in 1..Len(log) : log[n].res # "OK")
    => error = 1

(* C2: a failed Set never aborts the iteration: when the dispatcher has    *)
(* returned, the enumerator is exhausted and every detected chip that      *)
(* matches some spec has been dispatched, whatever the earlier statuses.   *)
C2_FailedSetDoesNotAbort ==
  (do_sets # 0 /\ Returned)
    => /\ chip_nr = Len(detected)
       /\ \A k \in 1..Len(detected) : Matches(k) => Dispatches(k) # {}

C2_Witness ==
  /\ pc = "exit"
  /\ do_sets # 0
  /\ Len(log) = 2
  /\ log[1].res = "ERR_PROC"
  /\ log[2].nr = 2
  /\ log[2].res = "OK"
  /\ error = 1

(* C3: first match wins, no double dispatch: a chip is never dispatched    *)
(* twice, no spec is scanned for a chip after its dispatch, and when the   *)
(* dispatcher has returned every chip that matches some spec has been      *)
(* dispatched exactly once, at its first matching spec, every other chip   *)
(* never, and the count equals the number of chips that match some spec.   *)
C3_FirstMatchWins ==
  InDispatch =>
    /\ \A k \in 1..Len(detected) : Cardinality(Dispatches(k)) <= 1
    /\ (pc = "scan" /\ Dispatches(chip_nr) # {}) => i >= chips_count
    /\ Returned =>
         /\ \A k \in 1..Len(detected) :
              IF Matches(k)
                THEN /\ Cardinality(Dispatches(k)) = 1
                     /\ \A n \in Dispatches(k) : log[n].spec = FirstMatch(k) - 1
                ELSE Dispatches(k) = {}
         /\ cnt = Cardinality({k \in 1..Len(detected) : Matches(k)})

C3_Witness ==
  /\ pc = "exit"
  /\ Len(detected) = 2
  /\ chips_count = 2
  /\ sensors_match_chip(detected[1], chips[1])
  /\ sensors_match_chip(detected[1], chips[2])
  /\ ~Matches(2)
  /\ cnt = 1
  /\ Len(log) = 1

(* C4: exit status after dispatch: no chip handled gives a not-found       *)
(* message and a non-zero status; chips handled and the error flag true    *)
(* gives a non-zero status; chips handled and the flag false gives zero;   *)
(* with zero detected chips the count is 0 and the flag is false.          *)
C4_ExitStatusMapping ==
  pc = "exit" =>
    /\ cnt = 0 => /\ exit_status # 0
                  /\ errout # << >>
                  /\ errout[Len(errout)].tag \in NotFoundTags
    /\ (cnt > 0 /\ error # 0) => exit_status # 0
    /\ (cnt > 0 /\ error = 0) => exit_status = 0
    /\ cnt >= 0
    /\ exit_status \in {0, 1}
    /\ Len(detected) = 0 => (cnt = 0 /\ error = 0)

C4_Witness ==
  /\ pc = "exit"
  /\ cnt = 0
  /\ Len(detected) > 0
  /\ exit_status = 1
  /\ "specified_sensors_not_found" \in Tags(errout)

(* C5: with no chip argument the spec list is exactly one spec whose       *)
(* prefix, bus and address are all ANY; it matches every detected chip, so *)
(* every detected chip is dispatched exactly once and the count equals the *)
(* number of detected chips.                                               *)
C5_DefaultSelectsAll ==
  (Len(argv) = 0 /\ pc \in {"init", "work", "next_chip", "scan", "return", "exit"})
    => /\ chips_count = 1
       /\ Len(chips) = 1
       /\ chips[1].prefix = SENSORS_CHIP_NAME_PREFIX_ANY
       /\ chips[1].bus = SENSORS_CHIP_NAME_BUS_ANY
       /\ chips[1].addr = SENSORS_CHIP_NAME_ADDR_ANY
       /\ \A d \in DetectedUniverse \cup FmtChips : sensors_match_chip(d, chips[1])
       /\ Returned =>
            /\ cnt = Len(detected)
            /\ \A k \in 1..Len(detected) : Cardinality(Dispatches(k)) = 1

C5_Witness ==
  /\ pc = "exit"
  /\ Len(argv) = 0
  /\ Len(detected) = 2
  /\ cnt = 2
  /\ Len(log) = 2

(* C6: a command line of k well-formed patterns is rejected as too many    *)
(* only when k exceeds the capacity of 20; every k from 1 to 20 proceeds.  *)
C6_TwentyPatternsAccepted ==
  "too_many_chips" \in Tags(errout) => Len(argv) > CHIPS_MAX

(* C7: the formatter produces <prefix>-isa-<4 hex digits>,                 *)
(* <prefix>-pci-<4 hex digits>, <prefix>-<bus name>-<4 hex digits> and,    *)
(* for any other bus, <prefix>-i2c-<bus in decimal>-<2 hex digits>, with   *)
(* lm78-isa-002d and lm75-i2c-0-48 as instances (addresses up to ffff on   *)
(* ISA, PCI and DUMMY, up to ff on I2C).                                   *)
Hex4(a) ==
  <<HexDigits[((a \div 4096) % 16) + 1], HexDigits[((a \div 256) % 16) + 1],
    HexDigits[((a \div 16) % 16) + 1], HexDigits[(a % 16) + 1]>>

Hex2(a) == <<HexDigits[((a \div 16) % 16) + 1], HexDigits[(a % 16) + 1]>>

Decimal(n) ==
  IF n < 10 THEN <<HexDigits[n + 1]>>
  ELSE IF n < 100 THEN <<HexDigits[(n \div 10) + 1], HexDigits[(n % 10) + 1]>>
  ELSE <<HexDigits[(n \div 100) + 1], HexDigits[((n \div 10) % 10) + 1],
         HexDigits[(n % 10) + 1]>>

ExpectedName(d) ==
  IF d.bus = SENSORS_CHIP_NAME_BUS_ISA
    THEN d.prefix \o <<"-", "i", "s", "a", "-">> \o Hex4(d.addr)
  ELSE IF d.bus = SENSORS_CHIP_NAME_BUS_PCI
    THEN d.prefix \o <<"-", "p", "c", "i", "-">> \o Hex4(d.addr)
  ELSE IF d.bus = SENSORS_CHIP_NAME_BUS_DUMMY
    THEN d.prefix \o <<"-">> \o d.busname \o <<"-">> \o Hex4(d.addr)
  ELSE d.prefix \o <<"-", "i", "2", "c", "-">> \o Decimal(d.bus) \o <<"-">>
       \o Hex2(d.addr)

C7_FormatByBusKind ==
  pc \in {"fmt_done", "fmt_parsed"} =>
    /\ buf = ExpectedName(chip)
    /\ chip = Chip(S_lm78, SENSORS_CHIP_NAME_BUS_ISA, << >>, 45)
         => buf = <<"l","m","7","8","-","i","s","a","-","0","0","2","d">>
    /\ chip = Chip(S_lm75, 0, << >>, 72)
         => buf = <<"l","m","7","5","-","i","2","c","-","0","-","4","8">>

C7_Witness ==
  /\ pc = "fmt_done"
  /\ chip = Chip(S_lm75, 0, << >>, 72)
  /\ buf = <<"l","m","7","5","-","i","2","c","-","0","-","4","8">>

(* C8: round trip: the formatted name of a detected chip of each bus kind  *)
(* is accepted by the pattern parser and the parsed spec matches the chip. *)
C8_RoundTrip ==
  pc = "fmt_parsed" =>
    /\ "parse_error" \notin Tags(errout)
    /\ chips_count = 1
    /\ sensors_match_chip(chip, chips[1])

C8_Witness ==
  /\ pc = "fmt_parsed"
  /\ chip = Chip(S_lm78, SENSORS_CHIP_NAME_BUS_ISA, << >>, 656)
  /\ chips_count = 1
  /\ chips[1] = chip

(* C9: in Print mode the aggregate error flag is false throughout the      *)
(* dispatcher's run, also when an adapter-name lookup fails, and a run     *)
(* that handles at least one chip exits with status zero.                  *)
C9_PrintNeverFails ==
  (do_sets = 0 /\ InDispatch)
    => /\ error = 0
       /\ (pc = "exit" /\ cnt > 0) => exit_status = 0

C9_Witness ==
  /\ pc = "exit"
  /\ do_sets = 0
  /\ "no_adapter_name" \in Tags(errout)
  /\ cnt > 0
  /\ exit_status = 0

====
